---- MODULE Spec2Model ----
(***************************************************************************)
(* Model of exchangelib/recurrence.py: the recurrence pattern, recurrence  *)
(* range and occurrence classes, their constructors (__init__) and their   *)
(* serialisation (to_xml).                                                 *)
(*                                                                         *)
(* Python values are modelled as follows.                                  *)
(*   - int fields that are only ever compared (month, day_of_month,        *)
(*     interval, week_number) are TLA+ integers;                           *)
(*   - a value whose Python type the code inspects (isinstance, len) is a  *)
(*     record tagged with its type: IntV(n), StrV(s), ListV(l), NoneV,     *)
(*     and [t |-> "EWSDate", v |-> n] / [t |-> "EWSDateTime", v |-> n]     *)
(*     for the two opaque date types;                                      *)
(*   - an object is a record of its attributes plus cls, its class;        *)
(*   - an XML element is [name, children], children being the ordered      *)
(*     (tag, value) pairs handed to add_xml_child.                         *)
(* Exceptions are modelled by the name of the exception raised ("" when    *)
(* the call returned normally), Python 3 semantics.                        *)
(***************************************************************************)
EXTENDS Integers, Sequences, FiniteSets, TLC

VARIABLES
    call,     \* the most recent constructor call: class and arguments
    self,     \* the object that call produced, NoObject if it raised
    pc,       \* "init", "constructed", "failed", "rendered", "render_failed"
    raised,   \* exception raised by the most recent operation, "" if none
    entry,    \* element returned by the most recent to_xml, else NoEntry
    renders   \* number of to_xml calls made on self

vars == <<call, self, pc, raised, entry, renders>>

(***************************************************************************)
(* Bounds                                                                  *)
(***************************************************************************)
MaxWeekdays == 2    \* longest weekday list a caller passes
MaxRenders == 2     \* to_xml calls made on one object

(***************************************************************************)
(* Python values                                                           *)
(***************************************************************************)
IntV(n) == [t |-> "int", n |-> n]
StrV(s) == [t |-> "str", s |-> s]
ListV(l) == [t |-> "list", l |-> l]
NoneV == [t |-> "NoneType"]

NoObject == [cls |-> "None"]
NoEntry == [name |-> "", children |-> <<>>]

\* tuple[k] for a Python tuple and a 0-based, possibly negative, index
IndexInRange(tuple, k) == -Len(tuple) <= k /\ k < Len(tuple)
GetItem(tuple, k) == IF k >= 0 THEN tuple[k + 1] ELSE tuple[Len(tuple) + k + 1]

\* sorted(l): the builtin, ascending and stable, as an insertion sort
RECURSIVE Insert(_, _)
Insert(x, s) ==
    IF s = <<>> THEN <<x>>
    ELSE IF x < Head(s) THEN <<x>> \o s
    ELSE <<Head(s)>> \o Insert(x, Tail(s))

RECURSIVE sorted(_)
sorted(l) == IF l = <<>> THEN <<>> ELSE Insert(l[Len(l)], sorted(SubSeq(l, 1, Len(l) - 1)))

\* sep.join(strs)
RECURSIVE join(_, _)
join(sep, strs) ==
    IF strs = <<>> THEN ""
    ELSE IF Len(strs) = 1 THEN strs[1]
    ELSE strs[1] \o sep \o join(sep, Tail(strs))

(***************************************************************************)
(* Module constants                                                        *)
(***************************************************************************)
WEEK_NUMBERS == <<"First", "Second", "Third", "Fourth", "Last">>

MONTHS == <<"January", "February", "March", "April", "May", "June", "July",
            "August", "September", "October", "November", "December">>

WEEKDAY_NAMES == <<"Monday", "Tuesday", "Wednesday", "Thursday", "Friday",
                   "Saturday", "Sunday">>

EXTRA_WEEKDAY_OPTIONS == <<"Day", "Weekday", "WeekendDay">>

WEEKDAYS == WEEKDAY_NAMES \o EXTRA_WEEKDAY_OPTIONS

\* x in tuple
In(x, tuple) == \E k \in 1..Len(tuple) : tuple[k] = x

(***************************************************************************)
(* ELEMENT_NAME of each class                                              *)
(***************************************************************************)
AbsoluteYearlyPattern_ELEMENT_NAME == "AbsoluteYearlyRecurrence"
RelativeYearlyPattern_ELEMENT_NAME == "RelativeYearlyRecurrence"
AbsoluteMonthlyPattern_ELEMENT_NAME == "AbsoluteMonthlyRecurrence"
RelativeMonthlyPattern_ELEMENT_NAME == "RelativeMonthlyRecurrence"
WeeklyPattern_ELEMENT_NAME == "WeeklyRecurrence"
DailyPattern_ELEMENT_NAME == "DailyRecurrence"
NoEndPattern_ELEMENT_NAME == "NoEndRecurrence"
EndDatePattern_ELEMENT_NAME == "NoEndRecurrence"
NumberedPattern_ELEMENT_NAME == "NumberedRecurrence"
Occurrence_ELEMENT_NAME == "Occurrence"
FirstOccurrence_ELEMENT_NAME == "FirstOccurrence"
LastOccurrence_ELEMENT_NAME == "LastOccurrence"
DeletedOccurrence_ELEMENT_NAME == "DeletedOccurrence"

\* cls.ELEMENT_NAME, class attribute lookup
ELEMENT_NAME(cls) ==
    CASE cls = "AbsoluteYearlyPattern" -> AbsoluteYearlyPattern_ELEMENT_NAME
      [] cls = "RelativeYearlyPattern" -> RelativeYearlyPattern_ELEMENT_NAME
      [] cls = "AbsoluteMonthlyPattern" -> AbsoluteMonthlyPattern_ELEMENT_NAME
      [] cls = "RelativeMonthlyPattern" -> RelativeMonthlyPattern_ELEMENT_NAME
      [] cls = "WeeklyPattern" -> WeeklyPattern_ELEMENT_NAME
      [] cls = "DailyPattern" -> DailyPattern_ELEMENT_NAME
      [] cls = "NoEndPattern" -> NoEndPattern_ELEMENT_NAME
      [] cls = "EndDatePattern" -> EndDatePattern_ELEMENT_NAME
      [] cls = "NumberedPattern" -> NumberedPattern_ELEMENT_NAME
      [] cls = "Occurrence" -> Occurrence_ELEMENT_NAME
      [] cls = "FirstOccurrence" -> FirstOccurrence_ELEMENT_NAME
      [] cls = "LastOccurrence" -> LastOccurrence_ELEMENT_NAME
      [] cls = "DeletedOccurrence" -> DeletedOccurrence_ELEMENT_NAME

(***************************************************************************)
(* Collaborators outside recurrence.py (EWSElement, util): the wire        *)
(* builder takes a tag name and ordered (tag, value) children; clean() is  *)
(* the validation gate, which changes nothing.                             *)
(***************************************************************************)
clean(obj) == obj
request_tag(obj) == ELEMENT_NAME(obj.cls)
create_element(tag) == [name |-> tag, children |-> <<>>]
add_xml_child(elem, tag, value) == [elem EXCEPT !.children = Append(@, <<tag, value>>)]

(***************************************************************************)
(* Outcomes of a call                                                      *)
(***************************************************************************)
Raise(exc) == [raised |-> exc, self |-> NoObject]
Return(obj) == [raised |-> "", self |-> obj]

RenderRaise(exc, obj) == [raised |-> exc, entry |-> NoEntry, self |-> obj]
RenderReturn(elem, obj) == [raised |-> "", entry |-> elem, self |-> obj]

\* for weekday in weekdays: assert 1 <= weekday <= 7
AllWeekdaysInRange(l) == \A k \in 1..Len(l) : 1 <= l[k] /\ l[k] <= 7

\* the tokens in the caller's order: sorted() left out
WeekdayTokens_Unsorted(l) == [k \in 1..Len(l) |-> GetItem(WEEKDAYS, l[k] - 1)]

\* WEEKDAYS[i-1] for i in sorted(weekdays)
WeekdayTokens(l) == [k \in 1..Len(l) |-> GetItem(WEEKDAYS, sorted(l)[k] - 1)]

\* len(v) > 0 is evaluated on a str or a list; len(None) raises TypeError
HasLen(v) == v.t \in {"str", "list"}
len(v) == IF v.t = "str" THEN Len(v.s) ELSE Len(v.l)

(***************************************************************************)
(* AbsoluteYearlyPattern                                                   *)
(***************************************************************************)
AbsoluteYearlyPattern_init(month, day_of_month) ==
    IF ~(1 <= month /\ month <= 12) THEN Raise("AssertionError")
    ELSE IF ~(1 <= day_of_month /\ day_of_month <= 31) THEN Raise("AssertionError")
    ELSE Return([cls |-> "AbsoluteYearlyPattern", month |-> month,
                 day_of_month |-> day_of_month])

\* AbsoluteYearlyPattern.to_xml clamping the day to the length of the month
DaysInMonth(month) ==
    IF month = 2 THEN 29 ELSE IF month \in {4, 6, 9, 11} THEN 30 ELSE 31

AbsoluteYearlyPattern_to_xml_Clamped(obj) ==
    LET s1 == clean(obj)
        day == IF s1.day_of_month > DaysInMonth(s1.month) THEN DaysInMonth(s1.month)
               ELSE s1.day_of_month
        e0 == create_element(request_tag(s1))
        e1 == add_xml_child(e0, "t:DayOfMonth", IntV(day))
    IN  IF ~IndexInRange(MONTHS, s1.month - 1) THEN RenderRaise("IndexError", s1)
        ELSE RenderReturn(add_xml_child(e1, "t:Month", StrV(GetItem(MONTHS, s1.month - 1))), s1)

AbsoluteYearlyPattern_to_xml(obj) ==
    LET s1 == clean(obj)
        e0 == create_element(request_tag(s1))
        e1 == add_xml_child(e0, "t:DayOfMonth", IntV(s1.day_of_month))
    IN  IF ~IndexInRange(MONTHS, s1.month - 1) THEN RenderRaise("IndexError", s1)
        ELSE RenderReturn(add_xml_child(e1, "t:Month", StrV(GetItem(MONTHS, s1.month - 1))), s1)

(***************************************************************************)
(* RelativeYearlyPattern                                                   *)
(***************************************************************************)
RelativeYearlyPattern_init(month, week_number, weekdays) ==
    IF ~(1 <= month /\ month <= 12) THEN Raise("AssertionError")
    ELSE IF ~(1 <= week_number /\ week_number <= 53) THEN Raise("AssertionError")
    ELSE IF weekdays.t = "str" /\ ~In(weekdays.s, EXTRA_WEEKDAY_OPTIONS)
        THEN Raise("AssertionError")
    ELSE IF weekdays.t # "str" /\ ~HasLen(weekdays) THEN Raise("TypeError")
    ELSE IF weekdays.t # "str" /\ ~(len(weekdays) > 0) THEN Raise("AssertionError")
    ELSE IF weekdays.t # "str" /\ ~AllWeekdaysInRange(weekdays.l) THEN Raise("AssertionError")
    ELSE Return([cls |-> "RelativeYearlyPattern", month |-> month,
                 week_number |-> week_number, weekdays |-> weekdays])

\* RelativeYearlyPattern.to_xml adding Month before DayOfWeekIndex
RelativeYearlyPattern_to_xml_MonthFirst(obj) ==
    LET s1 == clean(obj)
        days_of_week == IF s1.weekdays.t = "str" THEN s1.weekdays.s
                        ELSE join(" ", WeekdayTokens(s1.weekdays.l))
        e0 == create_element(request_tag(s1))
        e1 == add_xml_child(e0, "t:DaysOfWeek", StrV(days_of_week))
    IN  IF ~IndexInRange(MONTHS, s1.month - 1) THEN RenderRaise("IndexError", s1)
        ELSE LET e2 == add_xml_child(e1, "t:Month", StrV(GetItem(MONTHS, s1.month - 1)))
             IN  IF ~IndexInRange(WEEK_NUMBERS, s1.week_number - 1)
                 THEN RenderRaise("IndexError", s1)
                 ELSE RenderReturn(add_xml_child(e2, "t:DayOfWeekIndex",
                                       StrV(GetItem(WEEK_NUMBERS, s1.week_number - 1))), s1)

RelativeYearlyPattern_to_xml(obj) ==
    LET s1 == clean(obj)
        days_of_week == IF s1.weekdays.t = "str" THEN s1.weekdays.s
                        ELSE join(" ", WeekdayTokens(s1.weekdays.l))
        e0 == create_element(request_tag(s1))
        e1 == add_xml_child(e0, "t:DaysOfWeek", StrV(days_of_week))
    IN  IF ~IndexInRange(WEEK_NUMBERS, s1.week_number - 1) THEN RenderRaise("IndexError", s1)
        ELSE LET e2 == add_xml_child(e1, "t:DayOfWeekIndex",
                                     StrV(GetItem(WEEK_NUMBERS, s1.week_number - 1)))
             IN  IF ~IndexInRange(MONTHS, s1.month - 1) THEN RenderRaise("IndexError", s1)
                 ELSE RenderReturn(add_xml_child(e2, "t:Month",
                                       StrV(GetItem(MONTHS, s1.month - 1))), s1)

(***************************************************************************)
(* AbsoluteMonthlyPattern                                                  *)
(***************************************************************************)
AbsoluteMonthlyPattern_init(interval, day_of_month) ==
    IF ~(1 <= interval /\ interval <= 99) THEN Raise("AssertionError")
    ELSE IF ~(1 <= day_of_month /\ day_of_month <= 31) THEN Raise("AssertionError")
    ELSE Return([cls |-> "AbsoluteMonthlyPattern", interval |-> interval,
                 day_of_month |-> day_of_month])

AbsoluteMonthlyPattern_to_xml(obj) ==
    LET s1 == clean(obj)
        e0 == create_element(request_tag(s1))
        e1 == add_xml_child(e0, "t:Interval", IntV(s1.interval))
    IN  RenderReturn(add_xml_child(e1, "t:DayOfMonth", IntV(s1.day_of_month)), s1)

(***************************************************************************)
(* RelativeMonthlyPattern: interval is stored without a range assertion    *)
(***************************************************************************)
\* RelativeMonthlyPattern.__init__ without its len(weekdays) > 0 assertions
RelativeMonthlyPattern_init_NoLenCheck(interval, week_number, weekdays) ==
    IF ~(1 <= week_number /\ week_number <= 53) THEN Raise("AssertionError")
    ELSE IF ~HasLen(weekdays) THEN Raise("TypeError")
    ELSE IF weekdays.t = "str" /\ ~In(weekdays.s, EXTRA_WEEKDAY_OPTIONS)
        THEN Raise("AssertionError")
    ELSE IF weekdays.t # "str" /\ ~AllWeekdaysInRange(weekdays.l) THEN Raise("AssertionError")
    ELSE Return([cls |-> "RelativeMonthlyPattern", interval |-> interval,
                 week_number |-> week_number, weekdays |-> weekdays])

RelativeMonthlyPattern_init(interval, week_number, weekdays) ==
    IF ~(1 <= week_number /\ week_number <= 53) THEN Raise("AssertionError")
    ELSE IF ~HasLen(weekdays) THEN Raise("TypeError")
    ELSE IF ~(len(weekdays) > 0) THEN Raise("AssertionError")
    ELSE IF weekdays.t = "str" /\ ~In(weekdays.s, EXTRA_WEEKDAY_OPTIONS)
        THEN Raise("AssertionError")
    ELSE IF weekdays.t # "str" /\ ~(len(weekdays) > 0) THEN Raise("AssertionError")
    ELSE IF weekdays.t # "str" /\ ~AllWeekdaysInRange(weekdays.l) THEN Raise("AssertionError")
    ELSE Return([cls |-> "RelativeMonthlyPattern", interval |-> interval,
                 week_number |-> week_number, weekdays |-> weekdays])

RelativeMonthlyPattern_to_xml(obj) ==
    LET s1 == clean(obj)
        days_of_week == IF s1.weekdays.t = "str" THEN s1.weekdays.s
                        ELSE join(" ", WeekdayTokens(s1.weekdays.l))
        e0 == create_element(request_tag(s1))
        e1 == add_xml_child(e0, "t:Interval", IntV(s1.interval))
        e2 == add_xml_child(e1, "t:DaysOfWeek", StrV(days_of_week))
    IN  IF ~IndexInRange(WEEK_NUMBERS, s1.week_number - 1) THEN RenderRaise("IndexError", s1)
        ELSE RenderReturn(add_xml_child(e2, "t:DayOfWeekIndex",
                              StrV(GetItem(WEEK_NUMBERS, s1.week_number - 1))), s1)

(***************************************************************************)
(* WeeklyPattern: iterating a str compares 1 <= <character>, a TypeError   *)
(***************************************************************************)
WeeklyPattern_init(interval, weekdays) ==
    IF ~(1 <= interval /\ interval <= 99) THEN Raise("AssertionError")
    ELSE IF ~HasLen(weekdays) THEN Raise("TypeError")
    ELSE IF ~(len(weekdays) > 0) THEN Raise("AssertionError")
    ELSE IF weekdays.t = "str" THEN Raise("TypeError")
    ELSE IF ~AllWeekdaysInRange(weekdays.l) THEN Raise("AssertionError")
    ELSE Return([cls |-> "WeeklyPattern", interval |-> interval, weekdays |-> weekdays])

\* WeeklyPattern.to_xml sorting self.weekdays in place (weekdays.sort())
WeeklyPattern_to_xml_SortInPlace(obj) ==
    LET s0 == clean(obj)
        s1 == [s0 EXCEPT !.weekdays = ListV(sorted(s0.weekdays.l))]
        e0 == create_element(request_tag(s1))
        e1 == add_xml_child(e0, "t:Interval", IntV(s1.interval))
        e2 == add_xml_child(e1, "t:DaysOfWeek", StrV(join(" ", WeekdayTokens(s1.weekdays.l))))
    IN  RenderReturn(add_xml_child(e2, "t:FirstDayOfWeek", StrV(GetItem(WEEKDAYS, 0))), s1)

WeeklyPattern_to_xml(obj) ==
    LET s1 == clean(obj)
        e0 == create_element(request_tag(s1))
        e1 == add_xml_child(e0, "t:Interval", IntV(s1.interval))
        e2 == add_xml_child(e1, "t:DaysOfWeek", StrV(join(" ", WeekdayTokens(s1.weekdays.l))))
    IN  RenderReturn(add_xml_child(e2, "t:FirstDayOfWeek", StrV(GetItem(WEEKDAYS, 0))), s1)

(***************************************************************************)
(* DailyPattern                                                            *)
(***************************************************************************)
DailyPattern_init(interval) ==
    IF ~(1 <= interval /\ interval <= 999) THEN Raise("AssertionError")
    ELSE Return([cls |-> "DailyPattern", interval |-> interval])

DailyPattern_to_xml(obj) ==
    LET s1 == clean(obj)
        e0 == create_element(request_tag(s1))
    IN  RenderReturn(add_xml_child(e0, "t:Interval", IntV(s1.interval)), s1)

(***************************************************************************)
(* NoEndPattern, EndDatePattern, NumberedPattern                           *)
(***************************************************************************)
\* isinstance(x, EWSDate), isinstance(x, EWSDateTime), isinstance(x, int)
IsEWSDate(x) == x.t = "EWSDate"
IsEWSDateTime(x) == x.t = "EWSDateTime"
IsInt(x) == x.t = "int"

NoEndPattern_init(start) ==
    IF ~IsEWSDate(start) THEN Raise("AssertionError")
    ELSE Return([cls |-> "NoEndPattern", start |-> start])

NoEndPattern_to_xml(obj) ==
    LET s1 == clean(obj)
        e0 == create_element(request_tag(s1))
    IN  RenderReturn(add_xml_child(e0, "t:StartDate", s1.start), s1)

EndDatePattern_init(start, end) ==
    IF ~IsEWSDate(start) THEN Raise("AssertionError")
    ELSE IF ~IsEWSDate(end) THEN Raise("AssertionError")
    ELSE Return([cls |-> "EndDatePattern", start |-> start, end |-> end])

EndDatePattern_to_xml(obj) ==
    LET s1 == clean(obj)
        e0 == create_element(request_tag(s1))
        e1 == add_xml_child(e0, "t:StartDate", s1.start)
    IN  RenderReturn(add_xml_child(e1, "t:EndDate", s1.end), s1)

\* NumberedPattern.__init__ that also asserts number > 0
NumberedPattern_init_Positive(start, number) ==
    IF ~IsEWSDate(start) THEN Raise("AssertionError")
    ELSE IF ~IsInt(number) THEN Raise("AssertionError")
    ELSE IF ~(number.n > 0) THEN Raise("AssertionError")
    ELSE Return([cls |-> "NumberedPattern", start |-> start, number |-> number])

NumberedPattern_init(start, number) ==
    IF ~IsEWSDate(start) THEN Raise("AssertionError")
    ELSE IF ~IsInt(number) THEN Raise("AssertionError")
    ELSE Return([cls |-> "NumberedPattern", start |-> start, number |-> number])

NumberedPattern_to_xml(obj) ==
    LET s1 == clean(obj)
        e0 == create_element(request_tag(s1))
        e1 == add_xml_child(e0, "t:StartDate", s1.start)
    IN  RenderReturn(add_xml_child(e1, "t:NumberOfOccurrences", s1.number), s1)

(***************************************************************************)
(* Occurrence (and its subclasses FirstOccurrence, LastOccurrence, which   *)
(* inherit __init__ and to_xml), DeletedOccurrence                         *)
(***************************************************************************)
Occurrence_init(cls, item, start, end, original_start) ==
    IF ~IsEWSDateTime(start) THEN Raise("AssertionError")
    ELSE IF ~IsEWSDateTime(end) THEN Raise("AssertionError")
    ELSE IF ~IsEWSDateTime(original_start) THEN Raise("AssertionError")
    ELSE Return([cls |-> cls, item |-> item, start |-> start, end |-> end,
                 original_start |-> original_start])

\* Occurrence.to_xml adding OriginalStart before End
Occurrence_to_xml_Swapped(obj) ==
    LET s1 == clean(obj)
        e0 == create_element(request_tag(s1))
        e1 == add_xml_child(e0, "t:Start", s1.start)
        e2 == add_xml_child(e1, "t:OriginalStart", s1.original_start)
    IN  RenderReturn(add_xml_child(e2, "t:End", s1.end), s1)

Occurrence_to_xml(obj) ==
    LET s1 == clean(obj)
        e0 == create_element(request_tag(s1))
        e1 == add_xml_child(e0, "t:Start", s1.start)
        e2 == add_xml_child(e1, "t:End", s1.end)
    IN  RenderReturn(add_xml_child(e2, "t:OriginalStart", s1.original_start), s1)

DeletedOccurrence_init(start) ==
    Return([cls |-> "DeletedOccurrence", start |-> start])

DeletedOccurrence_to_xml(obj) ==
    LET s1 == clean(obj)
        e0 == create_element(request_tag(s1))
    IN  RenderReturn(add_xml_child(e0, "t:Start", s1.start), s1)

(***************************************************************************)
(* Arguments callers pass: in range, at both boundaries, and just outside  *)
(***************************************************************************)
MonthInputs == {0, 1, 2, 3, 12, 13}
DayInputs == {0, 1, 28, 31, 32}
IntervalInputs == {0, 1, 2, 99, 100, 999, 1000}
WeekNumberInputs == {0, 1, 4, 5, 6, 53, 54}
WeekdayValues == {0, 1, 3, 7, 8}
WeekdayLists == UNION {[1..n -> WeekdayValues] : n \in 0..MaxWeekdays}
WeekdaysInputs ==
    {ListV(l) : l \in WeekdayLists}
    \cup {StrV(s) : s \in {"Day", "Weekday", "WeekendDay", "Monday", ""}}
    \cup {NoneV}
EWSDates == {[t |-> "EWSDate", v |-> d] : d \in 1..2}
EWSDateTimes == {[t |-> "EWSDateTime", v |-> d] : d \in 1..2}
DateInputs == EWSDates \cup {[t |-> "EWSDateTime", v |-> 1], StrV("2024-01-01")}
DateTimeInputs == EWSDateTimes \cup {[t |-> "EWSDate", v |-> 1]}
NumberInputs == {IntV(n) : n \in {-1, 0, 5}} \cup {StrV("5")}
ItemInputs == {1}
OccurrenceClasses == {"Occurrence", "FirstOccurrence", "LastOccurrence"}

(***************************************************************************)
(* State machine                                                           *)
(***************************************************************************)
Init ==
    /\ call = NoObject
    /\ self = NoObject
    /\ pc = "init"
    /\ raised = ""
    /\ entry = NoEntry
    /\ renders = 0

\* the caller evaluates cls(args): r is what __init__ did.  Objects share no
\* state, so a behaviour follows one object from its construction on.
Constructed(c, r) ==
    /\ call' = c
    /\ self' = r.self
    /\ raised' = r.raised
    /\ pc' = IF r.raised = "" THEN "constructed" ELSE "failed"
    /\ entry' = NoEntry
    /\ renders' = 0

\* the caller evaluates self.to_xml(version): r is what to_xml did
Rendered(r) ==
    /\ self' = r.self
    /\ raised' = r.raised
    /\ pc' = IF r.raised = "" THEN "rendered" ELSE "render_failed"
    /\ entry' = r.entry
    /\ renders' = renders + 1
    /\ UNCHANGED call

CanRender(classes) == self.cls \in classes /\ renders < MaxRenders

NewAbsoluteYearlyPattern ==
    \E month \in MonthInputs, day_of_month \in DayInputs :
        /\ pc = "init"
        /\ Constructed([cls |-> "AbsoluteYearlyPattern", month |-> month,
                        day_of_month |-> day_of_month],
                       AbsoluteYearlyPattern_init(month, day_of_month))

NewRelativeYearlyPattern ==
    \E month \in MonthInputs, week_number \in WeekNumberInputs, weekdays \in WeekdaysInputs :
        /\ pc = "init"
        /\ Constructed([cls |-> "RelativeYearlyPattern", month |-> month,
                        week_number |-> week_number, weekdays |-> weekdays],
                       RelativeYearlyPattern_init(month, week_number, weekdays))

NewAbsoluteMonthlyPattern ==
    \E interval \in IntervalInputs, day_of_month \in DayInputs :
        /\ pc = "init"
        /\ Constructed([cls |-> "AbsoluteMonthlyPattern", interval |-> interval,
                        day_of_month |-> day_of_month],
                       AbsoluteMonthlyPattern_init(interval, day_of_month))

NewRelativeMonthlyPattern ==
    \E interval \in IntervalInputs, week_number \in WeekNumberInputs,
       weekdays \in WeekdaysInputs :
        /\ pc = "init"
        /\ Constructed([cls |-> "RelativeMonthlyPattern", interval |-> interval,
                        week_number |-> week_number, weekdays |-> weekdays],
                       RelativeMonthlyPattern_init(interval, week_number, weekdays))

NewWeeklyPattern ==
    \E interval \in IntervalInputs, weekdays \in WeekdaysInputs :
        /\ pc = "init"
        /\ Constructed([cls |-> "WeeklyPattern", interval |-> interval, weekdays |-> weekdays],
                       WeeklyPattern_init(interval, weekdays))

NewDailyPattern ==
    \E interval \in IntervalInputs :
        /\ pc = "init"
        /\ Constructed([cls |-> "DailyPattern", interval |-> interval],
                       DailyPattern_init(interval))

NewNoEndPattern ==
    \E start \in DateInputs :
        /\ pc = "init"
        /\ Constructed([cls |-> "NoEndPattern", start |-> start], NoEndPattern_init(start))

NewEndDatePattern ==
    \E start \in DateInputs, end \in DateInputs :
        /\ pc = "init"
        /\ Constructed([cls |-> "EndDatePattern", start |-> start, end |-> end],
                       EndDatePattern_init(start, end))

NewNumberedPattern ==
    \E start \in DateInputs, number \in NumberInputs :
        /\ pc = "init"
        /\ Constructed([cls |-> "NumberedPattern", start |-> start, number |-> number],
                       NumberedPattern_init(start, number))

NewOccurrence ==
    \E cls \in OccurrenceClasses, item \in ItemInputs, start \in DateTimeInputs,
       end \in DateTimeInputs, original_start \in DateTimeInputs :
        /\ pc = "init"
        /\ Constructed([cls |-> cls, item |-> item, start |-> start, end |-> end,
                        original_start |-> original_start],
                       Occurrence_init(cls, item, start, end, original_start))

NewDeletedOccurrence ==
    \E start \in DateInputs :
        /\ pc = "init"
        /\ Constructed([cls |-> "DeletedOccurrence", start |-> start],
                       DeletedOccurrence_init(start))

RenderAbsoluteYearlyPattern ==
    CanRender({"AbsoluteYearlyPattern"}) /\ Rendered(AbsoluteYearlyPattern_to_xml(self))

RenderRelativeYearlyPattern ==
    CanRender({"RelativeYearlyPattern"}) /\ Rendered(RelativeYearlyPattern_to_xml(self))

RenderAbsoluteMonthlyPattern ==
    CanRender({"AbsoluteMonthlyPattern"}) /\ Rendered(AbsoluteMonthlyPattern_to_xml(self))

RenderRelativeMonthlyPattern ==
    CanRender({"RelativeMonthlyPattern"}) /\ Rendered(RelativeMonthlyPattern_to_xml(self))

RenderWeeklyPattern ==
    CanRender({"WeeklyPattern"}) /\ Rendered(WeeklyPattern_to_xml(self))

RenderDailyPattern ==
    CanRender({"DailyPattern"}) /\ Rendered(DailyPattern_to_xml(self))

RenderNoEndPattern ==
    CanRender({"NoEndPattern"}) /\ Rendered(NoEndPattern_to_xml(self))

RenderEndDatePattern ==
    CanRender({"EndDatePattern"}) /\ Rendered(EndDatePattern_to_xml(self))

RenderNumberedPattern ==
    CanRender({"NumberedPattern"}) /\ Rendered(NumberedPattern_to_xml(self))

RenderOccurrence ==
    CanRender(OccurrenceClasses) /\ Rendered(Occurrence_to_xml(self))

RenderDeletedOccurrence ==
    CanRender({"DeletedOccurrence"}) /\ Rendered(DeletedOccurrence_to_xml(self))

Next ==
    \/ NewAbsoluteYearlyPattern
    \/ NewRelativeYearlyPattern
    \/ NewAbsoluteMonthlyPattern
    \/ NewRelativeMonthlyPattern
    \/ NewWeeklyPattern
    \/ NewDailyPattern
    \/ NewNoEndPattern
    \/ NewEndDatePattern
    \/ NewNumberedPattern
    \/ NewOccurrence
    \/ NewDeletedOccurrence
    \/ RenderAbsoluteYearlyPattern
    \/ RenderRelativeYearlyPattern
    \/ RenderAbsoluteMonthlyPattern
    \/ RenderRelativeMonthlyPattern
    \/ RenderWeeklyPattern
    \/ RenderDailyPattern
    \/ RenderNoEndPattern
    \/ RenderEndDatePattern
    \/ RenderNumberedPattern
    \/ RenderOccurrence
    \/ RenderDeletedOccurrence

Spec == Init /\ [][Next]_vars

TypeOK ==
    /\ pc \in {"init", "constructed", "failed", "rendered", "render_failed"}
    /\ raised \in {"", "AssertionError", "TypeError", "IndexError"}
    /\ renders \in 0..MaxRenders
    /\ (pc = "failed") = (self = NoObject /\ call # NoObject)
    /\ (pc \in {"rendered", "render_failed"}) = (renders > 0)
    /\ (pc = "rendered") = (entry # NoEntry)

(***************************************************************************)
(* Vocabulary of the properties                                            *)
(***************************************************************************)
PatternClasses == {"AbsoluteYearlyPattern", "RelativeYearlyPattern", "AbsoluteMonthlyPattern",
                   "RelativeMonthlyPattern", "WeeklyPattern", "DailyPattern"}
RelativeClasses == {"RelativeYearlyPattern", "RelativeMonthlyPattern"}
RangeClasses == {"NoEndPattern", "EndDatePattern", "NumberedPattern"}

HasField(c, f) == f \in DOMAIN c

\* the ordered child tags of the rendered element, and the values under a tag
Tags == [k \in 1..Len(entry.children) |-> entry.children[k][1]]
ChildValues(tag) == {entry.children[k][2] : k \in {j \in 1..Len(entry.children) : Tags[j] = tag}}

\* the weekday selector is a non-empty collection of ordinals 1-7 or one option token
ValidSelector(w) ==
    \/ w.t = "list" /\ Len(w.l) > 0 /\ \A k \in 1..Len(w.l) : w.l[k] \in 1..7
    \/ w.t = "str" /\ w.s \in {"Day", "Weekday", "WeekendDay"}

\* every field named by the domain table is inside its domain
FieldsInDomain(c) ==
    /\ HasField(c, "month") => c.month \in 1..12
    /\ HasField(c, "day_of_month") => c.day_of_month \in 1..31
    /\ HasField(c, "interval") =>
          c.interval \in (IF c.cls = "DailyPattern" THEN 1..999 ELSE 1..99)
    /\ (HasField(c, "weekdays") /\ c.weekdays.t = "list") =>
          \A k \in 1..Len(c.weekdays.l) : c.weekdays.l[k] \in 1..7

\* every argument is acceptable: the table's fields, a week ordinal First..Last
\* and a well-formed weekday selector
AllFieldsValid(c) ==
    /\ FieldsInDomain(c)
    /\ HasField(c, "week_number") => c.week_number \in 1..5
    /\ HasField(c, "weekdays") =>
          ValidSelector(c.weekdays) /\ (c.cls = "WeeklyPattern" => c.weekdays.t = "list")

\* C1: a pattern constructor fails whenever a field is outside its domain
\* (month 1-12, day_of_month 1-31, interval 1-99, or 1-999 for Daily, weekday
\* ordinals 1-7) and succeeds whenever every field is valid, the domain
\* boundaries included.
C1_DomainEnforced ==
    call.cls \in PatternClasses =>
        /\ ~FieldsInDomain(call) => pc = "failed"
        /\ AllFieldsValid(call) => pc # "failed"

\* C2: to_xml never raises on a constructed pattern, and the DayOfWeekIndex
\* child of a relative pattern is one of First, Second, Third, Fourth, Last.
C2_RenderNeverFails ==
    self.cls \in PatternClasses =>
        /\ pc # "render_failed"
        /\ (pc = "rendered" /\ self.cls \in RelativeClasses) =>
              /\ ChildValues("t:DayOfWeekIndex") # {}
              /\ ChildValues("t:DayOfWeekIndex") \subseteq
                    {StrV(x) : x \in {"First", "Second", "Third", "Fourth", "Last"}}

\* C3: NoEnd renders as NoEndRecurrence, EndDate as EndDateRecurrence and
\* Numbered as NumberedRecurrence, three pairwise distinct element names.
C3_RangeElementNames ==
    (pc = "rendered" /\ self.cls \in RangeClasses) =>
        entry.name = (CASE self.cls = "NoEndPattern" -> "NoEndRecurrence"
                        [] self.cls = "EndDatePattern" -> "EndDateRecurrence"
                        [] self.cls = "NumberedPattern" -> "NumberedRecurrence")

\* C4: a constructed RelativeYearly or RelativeMonthly value has a weekday
\* selector that is either a non-empty collection of ordinals 1-7 or one of
\* the tokens Day, Weekday, WeekendDay; construction fails for every other
\* selector (empty collection, other string, neither a string nor a collection).
C4_SelectorTaggedUnion ==
    call.cls \in RelativeClasses =>
        /\ pc \in {"constructed", "rendered", "render_failed"} => ValidSelector(self.weekdays)
        /\ ~ValidSelector(call.weekdays) => pc = "failed"

C4_Witness ==
    /\ pc = "failed"
    /\ call.cls = "RelativeMonthlyPattern"
    /\ call.interval = 1
    /\ call.week_number = 1
    /\ call.weekdays = ListV(<<>>)

\* display token of a weekday ordinal and of a month ordinal
WeekdayToken(d) ==
    CASE d = 1 -> "Monday" [] d = 2 -> "Tuesday" [] d = 3 -> "Wednesday"
      [] d = 4 -> "Thursday" [] d = 5 -> "Friday" [] d = 6 -> "Saturday"
      [] d = 7 -> "Sunday"

MonthToken(m) ==
    CASE m = 1 -> "January" [] m = 2 -> "February" [] m = 3 -> "March"
      [] m = 4 -> "April" [] m = 5 -> "May" [] m = 6 -> "June"
      [] m = 7 -> "July" [] m = 8 -> "August" [] m = 9 -> "September"
      [] m = 10 -> "October" [] m = 11 -> "November" [] m = 12 -> "December"

\* the tokens of the weekdays in l from ordinal d up, in ascending ordinal:
\* each ordinal's token as many times as l holds the ordinal, whatever l's order
Occurrences(l, d) == Cardinality({k \in 1..Len(l) : l[k] = d})

RECURSIVE AscendingTokens(_, _)
AscendingTokens(l, d) ==
    IF d > 7 THEN <<>>
    ELSE [k \in 1..Occurrences(l, d) |-> WeekdayToken(d)] \o AscendingTokens(l, d + 1)

RECURSIVE SpaceSeparated(_)
SpaceSeparated(tokens) ==
    IF Len(tokens) = 0 THEN ""
    ELSE IF Len(tokens) = 1 THEN tokens[1]
    ELSE SpaceSeparated(SubSeq(tokens, 1, Len(tokens) - 1)) \o " " \o tokens[Len(tokens)]

\* C5: the DaysOfWeek child of a rendered Weekly, RelativeYearly or
\* RelativeMonthly value is the space-joined tokens of its weekdays in
\* ascending ordinal, whatever order the caller gave them in; for a relative
\* value built from an option token it is that token; and Weekly renders
\* FirstDayOfWeek as Monday.
C5_DaysOfWeek ==
    (pc = "rendered" /\ self.cls \in RelativeClasses \cup {"WeeklyPattern"}) =>
        /\ call.weekdays.t = "list" =>
              ChildValues("t:DaysOfWeek") =
                  {StrV(SpaceSeparated(AscendingTokens(call.weekdays.l, 1)))}
        /\ call.weekdays.t = "str" => ChildValues("t:DaysOfWeek") = {call.weekdays}
        /\ self.cls = "WeeklyPattern" => ChildValues("t:FirstDayOfWeek") = {StrV("Monday")}

C5_Witness ==
    /\ pc = "rendered"
    /\ self.cls = "WeeklyPattern"
    /\ call.interval = 2
    /\ call.weekdays = ListV(<<3, 1>>)
    /\ entry.children = << <<"t:Interval", IntV(2)>>,
                           <<"t:DaysOfWeek", StrV("Monday Wednesday")>>,
                           <<"t:FirstDayOfWeek", StrV("Monday")>> >>

\* C6: a rendered pattern carries its variant's element name and exactly the
\* schema's children in the schema's order, the Month child being the display
\* token of the month.
C6_PatternShape ==
    (pc = "rendered" /\ self.cls \in PatternClasses) =>
        /\ self.cls = "AbsoluteYearlyPattern" =>
              /\ entry.name = "AbsoluteYearlyRecurrence"
              /\ Tags = <<"t:DayOfMonth", "t:Month">>
        /\ self.cls = "RelativeYearlyPattern" =>
              /\ entry.name = "RelativeYearlyRecurrence"
              /\ Tags = <<"t:DaysOfWeek", "t:DayOfWeekIndex", "t:Month">>
        /\ self.cls = "AbsoluteMonthlyPattern" =>
              /\ entry.name = "AbsoluteMonthlyRecurrence"
              /\ Tags = <<"t:Interval", "t:DayOfMonth">>
        /\ self.cls = "RelativeMonthlyPattern" =>
              /\ entry.name = "RelativeMonthlyRecurrence"
              /\ Tags = <<"t:Interval", "t:DaysOfWeek", "t:DayOfWeekIndex">>
        /\ self.cls = "WeeklyPattern" =>
              /\ entry.name = "WeeklyRecurrence"
              /\ Tags = <<"t:Interval", "t:DaysOfWeek", "t:FirstDayOfWeek">>
        /\ self.cls = "DailyPattern" =>
              /\ entry.name = "DailyRecurrence"
              /\ Tags = <<"t:Interval">>
        /\ HasField(call, "month") => ChildValues("t:Month") = {StrV(MonthToken(call.month))}

C6_Witness ==
    /\ pc = "rendered"
    /\ call = [cls |-> "RelativeYearlyPattern", month |-> 3, week_number |-> 5,
               weekdays |-> StrV("WeekendDay")]
    /\ entry = [name |-> "RelativeYearlyRecurrence",
                children |-> << <<"t:DaysOfWeek", StrV("WeekendDay")>>,
                                <<"t:DayOfWeekIndex", StrV("Last")>>,
                                <<"t:Month", StrV("March")>> >>]

\* what an occurrence edit or deletion renders, the generic occurrence slot
\* being named generic
OccurrenceShape(generic) ==
    /\ (pc = "rendered" /\ self.cls \in OccurrenceClasses) =>
          /\ entry.name = (CASE self.cls = "FirstOccurrence" -> "FirstOccurrence"
                             [] self.cls = "LastOccurrence" -> "LastOccurrence"
                             [] self.cls = "Occurrence" -> generic)
          /\ entry.children = << <<"t:Start", call.start>>, <<"t:End", call.end>>,
                                 <<"t:OriginalStart", call.original_start>> >>
    /\ (pc = "rendered" /\ self.cls = "DeletedOccurrence") =>
          /\ entry.name = "DeletedOccurrence"
          /\ entry.children = << <<"t:Start", call.start>> >>

\* C7 as stated: an occurrence edit renders [Start, End, OriginalStart] under
\* FirstOccurrence, LastOccurrence or, for the generic slot, ModifiedOccurrence;
\* a deletion renders [Start] under DeletedOccurrence.
C7_Original == OccurrenceShape("ModifiedOccurrence")

\* C7 amended: as stated, except that the generic modified-occurrence slot
\* renders under the element name Occurrence.
C7_OccurrenceShape == OccurrenceShape("Occurrence")

C7_Witness ==
    /\ pc = "rendered"
    /\ self.cls = "Occurrence"
    /\ call.start.v = 2
    /\ call.end.v = 1
    /\ call.original_start.v = 1
    /\ entry.name = "Occurrence"
    /\ Len(entry.children) = 3

\* C8: NumberedPattern accepts every int count with an EWSDate start, and
\* EndDatePattern every pair of EWSDates, whatever their order; the ranges
\* render [StartDate], [StartDate, EndDate] and [StartDate,
\* NumberOfOccurrences], carrying the constructed values unchanged.
C8_RangeNoValidation ==
    /\ (call.cls = "NumberedPattern" /\ IsEWSDate(call.start) /\ call.number.t = "int")
          => pc # "failed"
    /\ (call.cls = "EndDatePattern" /\ IsEWSDate(call.start) /\ IsEWSDate(call.end))
          => pc # "failed"
    /\ (call.cls = "NoEndPattern" /\ IsEWSDate(call.start)) => pc # "failed"
    /\ (pc = "rendered" /\ self.cls = "NoEndPattern") =>
          entry.children = << <<"t:StartDate", call.start>> >>
    /\ (pc = "rendered" /\ self.cls = "EndDatePattern") =>
          entry.children = << <<"t:StartDate", call.start>>, <<"t:EndDate", call.end>> >>
    /\ (pc = "rendered" /\ self.cls = "NumberedPattern") =>
          entry.children = << <<"t:StartDate", call.start>>,
                              <<"t:NumberOfOccurrences", call.number>> >>

C8_Witness ==
    /\ pc = "rendered"
    /\ self.cls = "NumberedPattern"
    /\ call.number = IntV(-1)
    /\ entry.children[2] = <<"t:NumberOfOccurrences", IntV(-1)>>

\* C9: AbsoluteYearly and AbsoluteMonthly accept every day_of_month in 1-31
\* whatever the month, and render DayOfMonth, and Interval, exactly as
\* constructed: nothing is clamped.
C9_NoClamping ==
    /\ (call.cls = "AbsoluteYearlyPattern" /\ call.month \in 1..12
            /\ call.day_of_month \in 1..31) => pc # "failed"
    /\ (call.cls = "AbsoluteMonthlyPattern" /\ call.interval \in 1..99
            /\ call.day_of_month \in 1..31) => pc # "failed"
    /\ (pc = "rendered" /\ self.cls \in {"AbsoluteYearlyPattern", "AbsoluteMonthlyPattern"}) =>
          ChildValues("t:DayOfMonth") = {IntV(call.day_of_month)}
    /\ (pc = "rendered" /\ self.cls = "AbsoluteMonthlyPattern") =>
          ChildValues("t:Interval") = {IntV(call.interval)}

C9_Witness ==
    /\ pc = "rendered"
    /\ call = [cls |-> "AbsoluteYearlyPattern", month |-> 2, day_of_month |-> 31]
    /\ ChildValues("t:DayOfMonth") = {IntV(31)}

\* C10: a to_xml call leaves every attribute of the object unchanged, and a
\* second to_xml call in a row has the outcome of the first: the same element
\* name and the same ordered children.
C10_RenderPure ==
    [][renders' = renders + 1 =>
          /\ self' = self
          /\ renders >= 1 => (entry' = entry /\ raised' = raised)]_vars

C10_Witness ==
    /\ renders = 2
    /\ pc = "rendered"
    /\ self.cls = "WeeklyPattern"
    /\ self.weekdays = ListV(<<3, 1>>)

====
